---- MODULE Spec2Model ----
(***************************************************************************)
(* A model of the mjd JSON processor: the tokenizer of crates/mjl           *)
(* (JsonLexer::next_token, lex_match, lex_string) and the recursive-descent *)
(* parser of crates/mjp (JsonParser).                                       *)
(*                                                                          *)
(* A source text is a sequence of characters.  A character is a string: an  *)
(* ASCII character stands for itself, a longer name stands for one          *)
(* non-ASCII or unprintable character (see the character table below).      *)
(* Byte offsets are offsets into the UTF-8 encoding of the text, so a       *)
(* character of two or four bytes has offsets that lie inside it.           *)
(***************************************************************************)
EXTENDS Integers, Sequences, FiniteSets, TLC

VARIABLES
    input,          \* JsonLexer.input: the source text
    byte_offset,    \* JsonLexer.byte_offset
    lexres,         \* the result of the most recent next_token call
    start_offset,   \* history: byte_offset when that call was entered
    returned,       \* history: the tokens next_token has returned, in order
    tokens,         \* JsonParser.tokens
    position,       \* JsonParser.position
    stack,          \* the parser's call stack, innermost frame last
    ret,            \* the value handed back by the call that just returned
    outcome,        \* the result of parse: running, ok, err or panic
    asked           \* history: <<position, Len(tokens)>> at each next_token call
                    \* made by JsonParser::current

vars == <<input, byte_offset, lexres, start_offset, returned,
          tokens, position, stack, ret, outcome, asked>>

lexvars == <<input, byte_offset, lexres, start_offset, returned>>
parsevars == <<tokens, position, stack, ret, outcome, asked>>

(***************************************************************************)
(* Characters                                                               *)
(***************************************************************************)
NBSP == "NBSP"      \* U+00A0 NO-BREAK SPACE: White_Space, two bytes
EACUTE == "EACUTE"  \* U+00E9: alphabetic, two bytes
MOUNT == "MOUNT"    \* U+1F5FB (the emoji of the lexer's test): four bytes
TAB == "TAB"        \* U+0009: White_Space and control, one byte
QUOTE == "\""
BACKSLASH == "\\"

\* char::len_utf8, which str slicing and String::len count in
Utf8Len(c) ==
    CASE c = NBSP -> 2
      [] c = EACUTE -> 2
      [] c = MOUNT -> 4
      [] OTHER -> 1

\* char::is_whitespace
is_whitespace(c) == c \in {" ", TAB, NBSP}

\* char::is_control
is_control(c) == c = TAB

\* char::is_ascii_digit
is_ascii_digit(c) == c \in {"0", "1", "2", "3", "4", "5", "6", "7", "8", "9"}

\* char::is_ascii_hexdigit
is_ascii_hexdigit(c) ==
    is_ascii_digit(c)
    \/ c \in {"a", "b", "c", "d", "e", "f", "A", "B", "C", "D", "E", "F"}

\* the regex crate's \w (Unicode word character), on the characters above
IsWordChar(c) ==
    /\ Utf8Len(c) = 1 => c \notin {" ", TAB, "{", "}", "[", "]", ",", ":",
                                   QUOTE, BACKSLASH, "-", "+", ".", "/", "@"}
    /\ Utf8Len(c) > 1 => c = EACUTE

RECURSIVE ByteLen(_)
\* str::len / String::len: the length in bytes
ByteLen(s) == IF s = <<>> THEN 0 ELSE Utf8Len(Head(s)) + ByteLen(Tail(s))

RECURSIVE CharIndexFrom(_, _, _, _)
\* The index of the character of s that starts at byte b (Len(s)+1 for the
\* end of s), or 0 when b is inside a character or beyond the end; character
\* i starts at byte `at`.
CharIndexFrom(s, b, i, at) ==
    IF at = b THEN i
    ELSE IF at > b \/ i > Len(s) THEN 0
    ELSE CharIndexFrom(s, b, i + 1, at + Utf8Len(s[i]))

CharIndex(s, b) == CharIndexFrom(s, b, 1, 0)

\* str::is_char_boundary
is_char_boundary(s, b) == CharIndex(s, b) # 0

Min(a, b) == IF a <= b THEN a ELSE b

(***************************************************************************)
(* Tokens and tokenizer results                                             *)
(***************************************************************************)
Token(type, text) == [type |-> type, text |-> text]
NoToken == Token("-", <<>>)

LexOk(tok) == [kind |-> "token", token |-> tok, msg |-> ""]
LexNone == [kind |-> "none", token |-> NoToken, msg |-> ""]
LexError(msg) == [kind |-> "err", token |-> NoToken, msg |-> msg]
\* a slice index that is no char boundary: the thread panics
LexPanic == [kind |-> "panic", token |-> NoToken,
             msg |-> "byte index is not a char boundary"]
LexIdle == [kind |-> "init", token |-> NoToken, msg |-> ""]

Lexed(res, off) == [res |-> res, off |-> off]

(***************************************************************************)
(* The regular expressions                                                  *)
(***************************************************************************)
\* \b at position p of s (between s[p] and s[p+1])
WordBoundary(s, p) ==
    LET before == p >= 1 /\ p <= Len(s) /\ IsWordChar(s[p])
        after == p + 1 <= Len(s) /\ IsWordChar(s[p + 1])
    IN  before # after

\* TRUE_REGEX, FALSE_REGEX, NULL_REGEX: ^lit\b
LiteralRegexIsMatch(lit, s) ==
    /\ Len(s) >= Len(lit)
    /\ SubSeq(s, 1, Len(lit)) = lit
    /\ WordBoundary(s, Len(lit))

RECURSIVE DigitRun(_, _)
\* how many characters from index p on are matched by \d
DigitRun(s, p) ==
    IF p <= Len(s) /\ is_ascii_digit(s[p]) THEN 1 + DigitRun(s, p + 1) ELSE 0

\* The ends (numbers of characters matched) of every way the group of
\* NUM_REGEX,  -?(?:0|[1-9]\d*)(?:\.\d+)?(?:(?:e|E)[+-]?\d+)?, matches a
\* prefix of s.
NumGroupEnds(s) ==
    LET At(p) == IF p <= Len(s) THEN s[p] ELSE ""
        Sign == {1} \cup (IF At(1) = "-" THEN {2} ELSE {})
        IntPart(p) == IF At(p) = "0" THEN {p + 1}
                  ELSE IF is_ascii_digit(At(p))
                       THEN {p + 1 + k : k \in 0..DigitRun(s, p + 1)}
                       ELSE {}
        FracPart(p) == {p} \cup (IF At(p) = "."
                             THEN {p + 1 + k : k \in 1..DigitRun(s, p + 1)}
                             ELSE {})
        ExpDigits(q) == {q + k : k \in 1..DigitRun(s, q)}
        ExpPart(p) == {p} \cup (IF At(p) \in {"e", "E"}
                            THEN ExpDigits(p + 1)
                                 \cup (IF At(p + 1) \in {"+", "-"}
                                       THEN ExpDigits(p + 2) ELSE {})
                            ELSE {})
        afterInt == UNION {IntPart(p) : p \in Sign}
        afterFrac == UNION {FracPart(p) : p \in afterInt}
        afterExp == UNION {ExpPart(p) : p \in afterFrac}
    IN  {p - 1 : p \in afterExp}

\* NUM_REGEX.captures(s).get(1): the length of the match, or -1 for no match.
\* Every quantifier is greedy, and an end the \b accepts is followed by a
\* non-word character, so the leftmost-first match is the longest such end.
NumRegexMatch(s) ==
    LET ends == {e \in NumGroupEnds(s) : WordBoundary(s, e)}
    IN  IF ends = {} THEN -1
        ELSE CHOOSE e \in ends : \A f \in ends : f <= e

(***************************************************************************)
(* JsonLexer                                                                *)
(***************************************************************************)
\* JsonLexer::lex_match, the factory being a match of ^lit\b that gives a
\* token of the given type
lex_match(inp, off, len, lit, type) ==
    LET end == Min(off + len, ByteLen(inp))
    IN  IF ~is_char_boundary(inp, off) \/ ~is_char_boundary(inp, end)
        THEN Lexed(LexPanic, off)
        ELSE LET slice == SubSeq(inp, CharIndex(inp, off), CharIndex(inp, end) - 1)
             IN  IF LiteralRegexIsMatch(lit, slice)
                 THEN Lexed(LexOk(Token(type, <<>>)), off + len)
                 ELSE Lexed(LexError("unexpected token"), off)

SimpleEscapes == {QUOTE, BACKSLASH, "/", "f", "n", "r", "t"}

RECURSIVE lex_unicode(_, _, _)
\* The `for _ in 0..4` loop of lex_string, n iterations left and the iterator
\* at index j: how many hex digits it pushes, or -1 when it meets a
\* character that is no hex digit.  It stops early at the end of the text.
lex_unicode(inp, j, n) ==
    IF n = 0 \/ j > Len(inp) THEN 0
    ELSE IF ~is_ascii_hexdigit(inp[j]) THEN -1
    ELSE LET more == lex_unicode(inp, j + 1, n - 1)
         IN  IF more < 0 THEN -1 ELSE more + 1

\* the cursor moved by the characters of the payload, not by its bytes
string_end_chars(off, s) == off + Len(s) + 2

\* `self.byte_offset += s.len() + 2` at the closing quote
string_end(off, s) == off + ByteLen(s) + 2

RECURSIVE lex_string(_, _, _, _)
\* JsonLexer::lex_string: the loop over chars, j the index the iterator is at
\* and s the payload so far
lex_string(inp, off, j, s) ==
    IF j > Len(inp) THEN Lexed(LexError("unclosed string literal"), off)
    ELSE LET c == inp[j] IN
         IF c = QUOTE
         THEN Lexed(LexOk(Token("String", s)), string_end(off, s))
         ELSE IF is_control(c)
         THEN Lexed(LexError("invalid control char in string"), off)
         ELSE IF c = BACKSLASH
         THEN IF j + 1 > Len(inp)
              THEN Lexed(LexError("unclosed string literal"), off)
              ELSE LET e == inp[j + 1]
                       hex == lex_unicode(inp, j + 2, 4)
                   IN  IF e \in SimpleEscapes
                       THEN lex_string(inp, off, j + 2, s \o <<c, e>>)
                       ELSE IF e = "u"
                       THEN IF hex < 0
                            THEN Lexed(LexError("invalid unicode escape sequence"), off)
                            ELSE lex_string(inp, off, j + 2 + hex,
                                            s \o <<c, e>> \o SubSeq(inp, j + 2, j + 1 + hex))
                       ELSE Lexed(LexError("invalid escape sequence"), off)
         ELSE lex_string(inp, off, j + 1, Append(s, c))

RECURSIVE SkipWhitespace(_, _)
\* the loop of next_token: the index of the first character at or after i
\* that is not whitespace
SkipWhitespace(inp, i) ==
    IF i <= Len(inp) /\ is_whitespace(inp[i]) THEN SkipWhitespace(inp, i + 1) ELSE i

\* the number arm of next_token
lex_number(inp, off) ==
    IF ~is_char_boundary(inp, off) THEN Lexed(LexPanic, off)
    ELSE LET rest == SubSeq(inp, CharIndex(inp, off), Len(inp))
             n == NumRegexMatch(rest)
         IN  IF n >= 0
             THEN Lexed(LexOk(Token("Number", SubSeq(rest, 1, n))),
                        off + ByteLen(SubSeq(rest, 1, n)))
             ELSE Lexed(LexError("unexpected character found"), off)

\* the pattern and guard of the number arm, `n @ '-' | n if n.is_ascii_digit()`:
\* the second alternative binds any character, and the guard applies to the
\* whole pattern, so to '-' as well
NumberArm(c) ==
    LET pattern == c = "-" \/ TRUE
    IN  pattern /\ is_ascii_digit(c)

Punctuation(c) ==
    CASE c = "{" -> "LBrace"
      [] c = "}" -> "RBrace"
      [] c = "[" -> "LBracket"
      [] c = "]" -> "RBracket"
      [] c = "," -> "Comma"
      [] c = ":" -> "Colon"
      [] OTHER -> "-"

\* JsonLexer::next_token on input inp with byte_offset off: the result and
\* the byte_offset it leaves
next_token(inp, off) ==
    IF ~is_char_boundary(inp, off) THEN Lexed(LexPanic, off)
    ELSE LET i0 == CharIndex(inp, off)
             i == SkipWhitespace(inp, i0)
             off1 == off + (i - i0)      \* byte_offset += 1 per character skipped
         IN  IF i > Len(inp) THEN Lexed(LexNone, off1)
             ELSE LET c == inp[i] IN
                  IF Punctuation(c) # "-"
                  THEN Lexed(LexOk(Token(Punctuation(c), <<>>)), off1 + 1)
                  ELSE IF c = "t"
                  THEN lex_match(inp, off1, 4, <<"t", "r", "u", "e">>, "True")
                  ELSE IF c = "f"
                  THEN lex_match(inp, off1, 5, <<"f", "a", "l", "s", "e">>, "False")
                  ELSE IF c = "n"
                  THEN lex_match(inp, off1, 4, <<"n", "u", "l", "l">>, "Null")
                  ELSE IF c = QUOTE
                  THEN lex_string(inp, off1, i + 1, <<>>)
                  ELSE IF NumberArm(c)
                  THEN lex_number(inp, off1)
                  ELSE Lexed(LexError("unable to parse token from char"), off1)

(***************************************************************************)
(* Source texts                                                             *)
(***************************************************************************)
RECURSIVE Concat(_)
\* the text made of the pieces of ps, in order
Concat(ps) == IF ps = <<>> THEN <<>> ELSE Head(ps) \o Concat(Tail(ps))

RECURSIVE Texts(_, _)
\* every text made of at most n pieces of P
Texts(P, n) ==
    IF n = 0 THEN {<<>>}
    ELSE LET shorter == Texts(P, n - 1)
         IN  shorter \cup {t \o p : t \in shorter, p \in P}

(***************************************************************************)
(* The tokenizer driven on its own, as by the tests of crates/mjl: a caller  *)
(* drains a source text by calling next_token until it gives no token.       *)
(***************************************************************************)
\* Values and parse results, which the tokenizer's own callers leave unused
Value(type, text, items) == [type |-> type, text |-> text, items |-> items]
NoValue == Value("-", <<>>, <<>>)
Returned(key, value) == [key |-> key, value |-> value]
NoReturn == Returned(<<>>, NoValue)
Outcome(kind, msg, arg, value) ==
    [kind |-> kind, msg |-> msg, arg |-> arg, value |-> value]

InitText(T) ==
    /\ input \in T
    /\ byte_offset = 0
    /\ lexres = LexIdle
    /\ start_offset = 0
    /\ returned = <<>>
    /\ tokens = <<>>
    /\ position = 0
    /\ ret = NoReturn
    /\ asked = <<>>

\* one call of JsonLexer::next_token by the draining caller
NextToken ==
    /\ outcome.kind = "lexing"
    /\ lexres.kind \in {"init", "token"}
    /\ LET r == next_token(input, byte_offset)
       IN  /\ byte_offset' = r.off
           /\ lexres' = r.res
           /\ start_offset' = byte_offset
           /\ returned' = IF r.res.kind = "token"
                          THEN Append(returned, r.res.token) ELSE returned
    /\ UNCHANGED <<input, tokens, position, stack, ret, outcome, asked>>

InitLexing(T) ==
    /\ InitText(T)
    /\ stack = <<>>
    /\ outcome = Outcome("lexing", "", <<>>, NoValue)

\* the pieces the tokenizer's texts are made of
MaxLexPieces == 4
LexPieces ==
    {<<c>> : c \in {"-", "0", "1", ".", "e", "x", " ", NBSP, MOUNT, "{", QUOTE}}
    \cup {<<"t", "r", "u", "e">>, <<"n", "u", "l", "l">>,
          <<"f", "a", "l", "s", "e">>}

LexInit == InitLexing(Texts(LexPieces, MaxLexPieces))
LexNext == NextToken
LexSpec == LexInit /\ [][LexNext]_vars

\* the pieces of the texts that hold string literals
MaxStrPieces == 5
StrPieces ==
    {<<c>> : c \in {QUOTE, BACKSLASH, "a", "x", TAB, EACUTE}}
    \cup {<<BACKSLASH, "u">>, <<"a", "a", "a">>}

StrInit == InitLexing(Texts(StrPieces, MaxStrPieces))
StrNext == NextToken
StrSpec == StrInit /\ [][StrNext]_vars

(***************************************************************************)
(* JsonParser.  The lexer, the token buffer and the position are threaded    *)
(* through the parser's functions as one record m; a function's result is    *)
(* the record it leaves and Ok or Err.  A panic of the tokenizer unwinds     *)
(* through every frame, like an error, and parse never returns.              *)
(***************************************************************************)
Machine ==
    [byte_offset |-> byte_offset, lexres |-> lexres, start_offset |-> start_offset,
     returned |-> returned, tokens |-> tokens, position |-> position,
     asked |-> asked]

Result(m, kind, msg, arg) == [m |-> m, kind |-> kind, msg |-> msg, arg |-> arg]

\* current without `self.tokens.push(u.clone())`
Pushed_nowhere(m, r) ==
    [m |-> [m EXCEPT
              !.byte_offset = r.off,
              !.lexres = r.res,
              !.start_offset = m.byte_offset,
              !.returned = IF r.res.kind = "token" THEN Append(@, r.res.token) ELSE @,
              !.asked = Append(@, <<m.position, Len(m.tokens)>>)],
     res |-> r.res]

\* what current does with the result r of next_token: `self.tokens.push`
Pushed(m, r) ==
    [m |-> [m EXCEPT
              !.byte_offset = r.off,
              !.lexres = r.res,
              !.start_offset = m.byte_offset,
              !.returned = IF r.res.kind = "token" THEN Append(@, r.res.token) ELSE @,
              !.tokens = IF r.res.kind = "token" THEN Append(@, r.res.token) ELSE @,
              !.asked = Append(@, <<m.position, Len(m.tokens)>>)],
     res |-> r.res]

\* JsonParser::current: the token at position, from the buffer or else from
\* the tokenizer, whose token is pushed on the buffer
current(m) ==
    IF m.position < Len(m.tokens)        \* self.tokens.get(self.position)
    THEN [m |-> m, res |-> LexOk(m.tokens[m.position + 1])]
    ELSE Pushed(m, next_token(input, m.byte_offset))

\* `self.current()?` when current gave no Ok: the LexError is the parse's
\* error (From<LexError> for Box<dyn Error>); a panic unwinds
Propagate(c) ==
    Result(c.m, IF c.res.kind = "panic" THEN "panic" ELSE "err", c.res.msg, <<>>)

Skip(m) == [m EXCEPT !.position = @ + 1]

\* the body of expect_skip, c the result of its call of current
expect_skip_on(c, expected) ==
    IF c.res.kind \in {"err", "panic"} THEN Propagate(c)
    ELSE IF c.res.kind = "token"
    THEN IF c.res.token.type = expected      \* discriminant(&t) == discriminant(expected)
         THEN Result(Skip(c.m), "ok", "", <<>>)
         ELSE Result(c.m, "err", "expected " \o expected \o ", but got",
                     <<c.res.token>>)
    ELSE Result(c.m, "err",
                "expected " \o expected \o ", but input ended prematurely", <<>>)

\* JsonParser::expect_skip
expect_skip(m, expected) == expect_skip_on(current(m), expected)

\* the body of expect_string, c the result of its call of current; arg is
\* the string on Ok
expect_string_on(c) ==
    IF c.res.kind \in {"err", "panic"} THEN Propagate(c)
    ELSE IF c.res.kind = "token"
    THEN IF c.res.token.type = "String"
         THEN Result(Skip(c.m), "ok", "", c.res.token.text)
         ELSE Result(c.m, "err", "expected string, but got", <<c.res.token>>)
    ELSE Result(c.m, "err", "expected string, but input ended prematurely", <<>>)

\* JsonParser::expect_string
expect_string(m) == expect_string_on(current(m))

\* A frame of the call stack: the function, where it is, and its locals.
\* iter_pos is history: the position at the start of the loop iteration the
\* frame is in.
Frame(fn, pc) ==
    [fn |-> fn, pc |-> pc, values |-> <<>>, pairs |-> <<>>, seen_keys |-> {},
     key |-> <<>>, iter_pos |-> 0]

Top == stack[Len(stack)]
Below == SubSeq(stack, 1, Len(stack) - 1)
Running == outcome.kind = "running" /\ stack # <<>>

SetMachine(m) ==
    /\ byte_offset' = m.byte_offset
    /\ lexres' = m.lexres
    /\ start_offset' = m.start_offset
    /\ returned' = m.returned
    /\ tokens' = m.tokens
    /\ position' = m.position
    /\ asked' = m.asked
    /\ input' = input

\* the function on top goes on: the stack and the returned value it leaves
GoOn(m, stk, r) ==
    /\ SetMachine(m)
    /\ stack' = stk
    /\ ret' = r
    /\ outcome' = outcome

\* an Err (or a panic) leaves every frame: parse ends with it
Fail(r) ==
    /\ SetMachine(r.m)
    /\ stack' = <<>>
    /\ ret' = NoReturn
    /\ outcome' = Outcome(r.kind, r.msg, r.arg, NoValue)

\* the frame on top returns v to its caller
Return(m, v) == GoOn(m, Below, v)

Call(caller, callee) == Below \o <<caller, callee>>

\* parse_json that returns the root value without a look at what follows
parse_json_end_unchecked(c, v) ==
    IF c.res.kind \in {"err", "panic"} THEN Fail(Propagate(c))
    ELSE /\ SetMachine(c.m)
         /\ stack' = <<>>
         /\ ret' = NoReturn
         /\ outcome' = Outcome("ok", "", <<>>, v)

\* parse_json after parse_value gave v: c is the result of current
parse_json_end(c, v) ==
    IF c.res.kind \in {"err", "panic"} THEN Fail(Propagate(c))
    ELSE IF c.res.kind = "token"
    THEN Fail(Result(c.m, "err", "unexpected content following root value", <<>>))
    ELSE /\ SetMachine(c.m)
         /\ stack' = <<>>
         /\ ret' = NoReturn
         /\ outcome' = Outcome("ok", "", <<>>, v)

\* JsonParser::parse_json
parse_json ==
    /\ Running
    /\ Top.fn = "parse_json"
    /\ \/ /\ Top.pc = "start"
          /\ GoOn(Machine,
                  Call([Top EXCEPT !.pc = "value"], Frame("parse_value", "start")),
                  NoReturn)
       \/ /\ Top.pc = "value"
          /\ parse_json_end(current(Machine), ret.value)

\* the scalar arms of the match of parse_value
ScalarOf(t) ==
    IF t.type = "String" THEN Value("Str", t.text, <<>>)
    ELSE IF t.type = "Number" THEN Value("Number", t.text, <<>>)
    ELSE IF t.type = "True" THEN Value("Boolean", <<"True">>, <<>>)
    ELSE IF t.type = "False" THEN Value("Boolean", <<"False">>, <<>>)
    ELSE Value("Null", <<>>, <<>>)

\* The body of parse_value, c the result of its call of current.  Its calls
\* of parse_object and parse_array are its last act and their result is its
\* result, so their frame takes its place.
parse_value_on(c) ==
    IF c.res.kind \in {"err", "panic"} THEN Fail(Propagate(c))
    ELSE IF c.res.kind = "none"
    THEN Fail(Result(c.m, "err", "expected value but input ended prematurely", <<>>))
    ELSE IF c.res.token.type = "LBrace"
    THEN GoOn(c.m, Below \o <<Frame("parse_object", "enter")>>, NoReturn)
    ELSE IF c.res.token.type = "LBracket"
    THEN GoOn(c.m, Below \o <<Frame("parse_array", "enter")>>, NoReturn)
    ELSE IF c.res.token.type \in {"String", "Number", "True", "False", "Null"}
    THEN Return(Skip(c.m), Returned(<<>>, ScalarOf(c.res.token)))
    ELSE Fail(Result(c.m, "err", "expected a value, but got", <<c.res.token>>))

\* JsonParser::parse_value
parse_value ==
    /\ Running
    /\ Top.fn = "parse_value"
    /\ parse_value_on(current(Machine))

\* the arm Some(_) of parse_array: sep is the result of expect_skip(&Comma),
\* or Ok when values is empty
parse_array_element(values, sep) ==
    IF sep.kind # "ok" THEN Fail(sep)
    ELSE GoOn(sep.m,
              Call([Top EXCEPT !.pc = "push", !.values = values, !.iter_pos = position],
                   Frame("parse_value", "start")),
              NoReturn)

\* the loop of parse_array with the arm None matched by the arm `_`
parse_array_loop_no_none(values, c) ==
    IF c.res.kind \in {"err", "panic"} THEN Fail(Propagate(c))
    ELSE IF c.res.kind = "token" /\ c.res.token.type = "RBracket"
    THEN Return(Skip(c.m), Returned(<<>>, Value("Array", <<>>, values)))
    ELSE parse_array_element(values,
                             IF values # <<>> THEN expect_skip(c.m, "Comma")
                             ELSE Result(c.m, "ok", "", <<>>))

\* one iteration of the loop of parse_array, c the result of current
parse_array_loop(values, c) ==
    IF c.res.kind \in {"err", "panic"} THEN Fail(Propagate(c))
    ELSE IF c.res.kind = "none"
    THEN Fail(Result(c.m, "err", "unclosed array delimiter", <<>>))
    ELSE IF c.res.token.type = "RBracket"
    THEN Return(Skip(c.m), Returned(<<>>, Value("Array", <<>>, values)))
    ELSE parse_array_element(values,
                             IF values # <<>> THEN expect_skip(c.m, "Comma")
                             ELSE Result(c.m, "ok", "", <<>>))

\* the value put in front of the values
push_front(values, v) == <<v>> \o values

\* `values.push(self.parse_value()?)`
push(values, v) == Append(values, v)

\* JsonParser::parse_array: at "push" the value parse_value gave is pushed
parse_array ==
    /\ Running
    /\ Top.fn = "parse_array"
    /\ \/ /\ Top.pc = "enter"
          /\ GoOn(Skip(Machine), Below \o <<[Top EXCEPT !.pc = "loop"]>>, NoReturn)
       \/ /\ Top.pc \in {"loop", "push"}
          /\ parse_array_loop(IF Top.pc = "push" THEN push(Top.values, ret.value)
                              ELSE Top.values,
                              current(Machine))

\* the arm Some(_) of parse_object: sep is the result of expect_skip(&Comma),
\* or Ok when pairs is empty
parse_object_pair(pairs, seen_keys, sep) ==
    IF sep.kind # "ok" THEN Fail(sep)
    ELSE GoOn(sep.m,
              Call([Top EXCEPT !.pc = "insert", !.pairs = pairs,
                               !.seen_keys = seen_keys, !.iter_pos = position],
                   Frame("parse_pair", "key")),
              NoReturn)

\* one iteration of the loop of parse_object, c the result of current
parse_object_loop(pairs, seen_keys, c) ==
    IF c.res.kind \in {"err", "panic"} THEN Fail(Propagate(c))
    ELSE IF c.res.kind = "none"
    THEN Fail(Result(c.m, "err", "unclosed object", <<>>))
    ELSE IF c.res.token.type = "RBrace"
    THEN Return(Skip(c.m), Returned(<<>>, Value("Object", <<>>, pairs)))
    ELSE parse_object_pair(pairs, seen_keys,
                           IF pairs # <<>> THEN expect_skip(c.m, "Comma")
                           ELSE Result(c.m, "ok", "", <<>>))

\* the result of the insert is dropped
duplicate_key_ignored(seen_keys, key) == FALSE

\* `!seen_keys.insert(pair.key.clone())`: the key is in seen_keys already
duplicate_key(seen_keys, key) == key \in seen_keys

\* JsonParser::parse_object: at "insert" the pair parse_pair gave is checked
\* against seen_keys and pushed
parse_object ==
    /\ Running
    /\ Top.fn = "parse_object"
    /\ \/ /\ Top.pc = "enter"
          /\ GoOn(Skip(Machine), Below \o <<[Top EXCEPT !.pc = "loop"]>>, NoReturn)
       \/ /\ Top.pc = "insert"
          /\ duplicate_key(Top.seen_keys, ret.key)
          /\ Fail(Result(Machine, "err", "duplicate key", ret.key))
       \/ /\ Top.pc = "insert"
          /\ ~duplicate_key(Top.seen_keys, ret.key)
          /\ parse_object_loop(Append(Top.pairs, ret), Top.seen_keys \cup {ret.key},
                               current(Machine))
       \/ /\ Top.pc = "loop"
          /\ parse_object_loop(Top.pairs, Top.seen_keys, current(Machine))

\* parse_pair after expect_string gave k
parse_pair_key(k) ==
    IF k.kind # "ok" THEN Fail(k)
    ELSE GoOn(k.m, Below \o <<[Top EXCEPT !.pc = "colon", !.key = k.arg]>>, NoReturn)

\* parse_pair after expect_skip(&Colon) gave k
parse_pair_colon(k) ==
    IF k.kind # "ok" THEN Fail(k)
    ELSE GoOn(k.m, Call([Top EXCEPT !.pc = "value"], Frame("parse_value", "start")),
              NoReturn)

\* JsonParser::parse_pair
parse_pair ==
    /\ Running
    /\ Top.fn = "parse_pair"
    /\ \/ /\ Top.pc = "key"
          /\ parse_pair_key(expect_string(Machine))
       \/ /\ Top.pc = "colon"
          /\ parse_pair_colon(expect_skip(Machine, "Colon"))
       \/ /\ Top.pc = "value"
          /\ Return(Machine, Returned(Top.key, ret.value))

(***************************************************************************)
(* parse(lexer) on a source text.  The texts are made of the pieces below:   *)
(* every text of at most MaxPieces pieces of which all but the last keep a     *)
(* JSON document possible (the parser stops at the first token that does     *)
(* not), whatever the last piece is.                                         *)
(***************************************************************************)
StringA == <<QUOTE, "a", QUOTE>>
KeyB == <<QUOTE, "b", QUOTE, ":">>
PairA == StringA \o <<":", "1">>
ObjectA == <<"{">> \o PairA \o <<"}">>
Punctuations == {<<c>> : c \in {"{", "}", "[", "]", ",", ":"}}

ParsePieces ==
    Punctuations
    \cup {StringA, KeyB, PairA, ObjectA, <<" ", "1">>, <<"x">>, <<NBSP, "1">>}

\* the kinds of the tokens of a piece
PieceKinds(p) ==
    IF p \in Punctuations THEN p
    ELSE IF p = StringA THEN <<"string">>
    ELSE IF p = KeyB THEN <<"string", ":">>
    ELSE IF p = PairA THEN <<"string", ":", "scalar">>
    ELSE IF p = ObjectA THEN <<"{", "string", ":", "scalar", "}">>
    ELSE IF p = <<" ", "1">> THEN <<"scalar">>
    ELSE <<"other">>

\* What may follow a prefix of a JSON document: the open containers,
\* innermost last, and what is expected next.
Expecting(open, next) == [open |-> open, next |-> next]
Dead == Expecting(<<>>, "dead")
AfterValue(open) ==
    IF open = <<>> THEN Expecting(open, "end") ELSE Expecting(open, "separator")
Close(open) == AfterValue(SubSeq(open, 1, Len(open) - 1))

Follow(e, k) ==
    CASE e.next \in {"value", "first value"} ->
            IF k = "[" THEN Expecting(Append(e.open, "["), "first value")
            ELSE IF k = "{" THEN Expecting(Append(e.open, "{"), "first key")
            ELSE IF k \in {"string", "scalar"} THEN AfterValue(e.open)
            ELSE IF k = "]" /\ e.next = "first value" THEN Close(e.open)
            ELSE Dead
      [] e.next \in {"key", "first key"} ->
            IF k = "string" THEN Expecting(e.open, "colon")
            ELSE IF k = "}" /\ e.next = "first key" THEN Close(e.open)
            ELSE Dead
      [] e.next = "colon" ->
            IF k = ":" THEN Expecting(e.open, "value") ELSE Dead
      [] e.next = "separator" ->
            LET top == e.open[Len(e.open)]
            IN  IF k = "," THEN Expecting(e.open, IF top = "[" THEN "value" ELSE "key")
                ELSE IF (k = "]" /\ top = "[") \/ (k = "}" /\ top = "{")
                THEN Close(e.open)
                ELSE Dead
      [] OTHER -> Dead

RECURSIVE FollowAll(_, _)
FollowAll(e, ks) == IF ks = <<>> THEN e ELSE FollowAll(Follow(e, Head(ks)), Tail(ks))

MaxPieces == 6

RECURSIVE Prefixes(_)
\* the prefixes of exactly n pieces after which a document is still possible
Prefixes(n) ==
    IF n = 0 THEN {[text |-> <<>>, e |-> Expecting(<<>>, "value")]}
    ELSE {q \in {[text |-> p.text \o l, e |-> FollowAll(p.e, PieceKinds(l))] :
                    p \in Prefixes(n - 1), l \in ParsePieces} : q.e # Dead}

ParseTexts ==
    {<<>>} \cup UNION {{p.text \o l : p \in Prefixes(n - 1), l \in ParsePieces} :
                       n \in 1..MaxPieces}

ParseInit ==
    /\ InitText(ParseTexts)
    /\ stack = <<Frame("parse_json", "start")>>
    /\ outcome = Outcome("running", "", <<>>, NoValue)

ParseNext ==
    \/ parse_json
    \/ parse_value
    \/ parse_array
    \/ parse_object
    \/ parse_pair

ParseSpec == ParseInit /\ [][ParseNext]_vars

(***************************************************************************)
(* Properties of the tokenizer                                              *)
(***************************************************************************)
\* the most recent call of next_token was entered at the start of a character
Called == lexres.kind # "init"
CalledAt(i) == Called /\ CharIndex(input, start_offset) = i /\ i <= Len(input)

IsDigits(s) == s # <<>> /\ \A i \in 1..Len(s) : is_ascii_digit(s[i])

\* the number grammar: an optional '-', then '0' or a digit that is not '0'
\* followed by digits, then an optional '.' and digits, then an optional
\* exponent of 'e' or 'E', an optional sign and digits
IsJsonNumber(s) ==
    \E a \in 0..1, b \in 1..Len(s), c \in 1..Len(s) :
        LET int == SubSeq(s, a + 1, b)
            frac == SubSeq(s, b + 1, c)
            exp == SubSeq(s, c + 1, Len(s))
        IN  /\ a < b /\ b <= c
            /\ a = 1 => s[1] = "-"
            /\ IsDigits(int) /\ (int[1] = "0" => Len(int) = 1)
            /\ frac # <<>> => frac[1] = "." /\ IsDigits(Tail(frac))
            /\ exp # <<>> =>
                  /\ exp[1] \in {"e", "E"}
                  /\ \/ IsDigits(Tail(exp))
                     \/ Len(exp) >= 2 /\ exp[2] \in {"+", "-"} /\ IsDigits(Tail(Tail(exp)))

\* C1: when the text is exactly one literal of the number grammar, a leading
\* '-' included, next_token from cursor 0 gives a Number token whose payload
\* is the whole text.
C1_NumberLiteral ==
    (Called /\ start_offset = 0 /\ IsJsonNumber(input))
        => lexres = LexOk(Token("Number", input))

\* what C1 says of the literals that start with a digit
C1_UnsignedNumberLiteral ==
    (Called /\ start_offset = 0 /\ IsJsonNumber(input) /\ input[1] # "-")
        => lexres = LexOk(Token("Number", input)) /\ byte_offset = Len(input)

Keyword(c) ==
    IF c = "t" THEN <<"t", "r", "u", "e">>
    ELSE IF c = "f" THEN <<"f", "a", "l", "s", "e">>
    ELSE <<"n", "u", "l", "l">>
KeywordTypes == {"True", "False", "Null"}

\* the text from character i on starts with the literal lit
StartsWith(i, lit) ==
    /\ i + Len(lit) - 1 <= Len(input)
    /\ SubSeq(input, i, i + Len(lit) - 1) = lit

\* the literal lit at character i is followed by an identifier character
FollowedByIdentifier(i, lit) ==
    /\ i + Len(lit) <= Len(input)
    /\ IsWordChar(input[i + Len(lit)])

\* C2: with 't', 'f' or 'n' at the cursor, next_token gives True, False or
\* Null only if the literal is there and a word boundary follows it; when an
\* identifier character follows the literal it gives a lex error, no keyword
\* token, and leaves the cursor where it was.
C2_KeywordBoundary ==
    \A i \in 1..Len(input) :
        (CalledAt(i) /\ input[i] \in {"t", "f", "n"}) =>
            /\ (lexres.kind = "token" /\ lexres.token.type \in KeywordTypes)
                  => StartsWith(i, Keyword(input[i]))
                     /\ ~FollowedByIdentifier(i, Keyword(input[i]))
            /\ (StartsWith(i, Keyword(input[i]))
                   /\ FollowedByIdentifier(i, Keyword(input[i])))
                  => lexres.kind = "err" /\ byte_offset = start_offset

\* C3: byte_offset, and every slice bound made from it, is on a character
\* boundary of the text (no slice panics), and byte_offset is at most the
\* length of the text.
C3_CharBoundary ==
    /\ is_char_boundary(input, byte_offset)
    /\ byte_offset <= ByteLen(input)
    /\ lexres.kind # "panic"

PlainChar(c) == c # QUOTE /\ c # BACKSLASH /\ ~is_control(c)

RECURSIVE IsStringBody(_)
\* the text between the quotes of a string literal: characters that are no
\* quote, backslash or control character, backslash and one of " \ / f n r t,
\* and backslash, u and four hex digits
IsStringBody(s) ==
    \/ s = <<>>
    \/ PlainChar(s[1]) /\ IsStringBody(Tail(s))
    \/ /\ Len(s) >= 2
       /\ s[1] = BACKSLASH
       /\ s[2] \in {QUOTE, BACKSLASH, "/", "f", "n", "r", "t"}
       /\ IsStringBody(SubSeq(s, 3, Len(s)))
    \/ /\ Len(s) >= 6
       /\ s[1] = BACKSLASH
       /\ s[2] = "u"
       /\ \A k \in 3..6 : is_ascii_hexdigit(s[k])
       /\ IsStringBody(SubSeq(s, 7, Len(s)))

\* the closing quotes of the well-formed string literals that open at i
ClosingQuotes(i) ==
    {j \in (i + 1)..Len(input) :
        input[j] = QUOTE /\ IsStringBody(SubSeq(input, i + 1, j - 1))}

\* a backslash at j, inside the literal that opens at i, that starts no escape
BadEscapeAt(i, j) ==
    /\ input[j] = BACKSLASH
    /\ IsStringBody(SubSeq(input, i + 1, j - 1))
    /\ j < Len(input)
    /\ input[j + 1] \notin {QUOTE, BACKSLASH, "/", "f", "n", "r", "t", "u"}

\* C7: with a quote at the cursor, next_token succeeds exactly when the
\* literal is well formed and closed; the payload is then the text between
\* the quotes, unchanged, and the cursor is just after the closing quote,
\* payload bytes + 2 further on; otherwise it gives a lex error, as it does
\* for a backslash followed by any other character.
C7_StringLiteral ==
    \A i \in 1..Len(input) :
        (CalledAt(i) /\ input[i] = QUOTE) =>
            /\ lexres.kind = "token" <=> ClosingQuotes(i) # {}
            /\ lexres.kind # "token" => lexres.kind = "err" /\ byte_offset = start_offset
            /\ \A j \in ClosingQuotes(i) :
                  /\ lexres.token = Token("String", SubSeq(input, i + 1, j - 1))
                  /\ byte_offset = start_offset + ByteLen(lexres.token.text) + 2
                  /\ CharIndex(input, byte_offset) = j + 1
            /\ (\E j \in (i + 1)..Len(input) : BadEscapeAt(i, j))
                  => lexres = LexError("invalid escape sequence")

\* a literal with a two-byte character and an escaped quote has been lexed
C7_Witness ==
    /\ lexres = LexOk(Token("String", <<EACUTE, BACKSLASH, QUOTE>>))
    /\ start_offset = 0
    /\ byte_offset = 6

(***************************************************************************)
(* Properties of the parser                                                 *)
(***************************************************************************)
\* parse is over: it returned a document or an error, or it panicked
Done == outcome.kind \in {"ok", "err", "panic"}

RECURSIVE Drain(_, _)
\* the tokens next_token gives from offset off on, after toks, and how the
\* text ends: "none", "err" or "panic"
Drain(off, toks) ==
    LET r == next_token(input, off)
    IN  IF r.res.kind = "token"
        THEN Drain(r.off, Append(toks, r.res.token))
        ELSE [tokens |-> toks, end |-> r.res.kind]

\* the token sequence of the source text
LexAll == Drain(0, <<>>)

Slice(ts, a, b) == SubSeq(ts, a, b)
Inner(ts) == SubSeq(ts, 2, Len(ts) - 1)

RECURSIVE IsValue(_), IsElements(_), IsPairs(_, _)
\* the grammar of section 5 on token sequences: a value is a scalar token,
\* '[' ']' around values separated by commas, or '{' '}' around pairs of a
\* string, a colon and a value, separated by commas, with keys all different
IsValue(ts) ==
    \/ Len(ts) = 1 /\ ts[1].type \in {"String", "Number", "True", "False", "Null"}
    \/ /\ Len(ts) >= 2
       /\ ts[1].type = "LBracket"
       /\ ts[Len(ts)].type = "RBracket"
       /\ Len(ts) = 2 \/ IsElements(Inner(ts))
    \/ /\ Len(ts) >= 2
       /\ ts[1].type = "LBrace"
       /\ ts[Len(ts)].type = "RBrace"
       /\ Len(ts) = 2 \/ IsPairs(Inner(ts), {})

IsElements(ts) ==
    \/ IsValue(ts)
    \/ \E k \in 2..(Len(ts) - 1) :
          /\ ts[k].type = "Comma"
          /\ IsValue(Slice(ts, 1, k - 1))
          /\ IsElements(Slice(ts, k + 1, Len(ts)))

IsPair(ts) ==
    /\ Len(ts) >= 3
    /\ ts[1].type = "String"
    /\ ts[2].type = "Colon"
    /\ IsValue(Slice(ts, 3, Len(ts)))

IsPairs(ts, used) ==
    \/ IsPair(ts) /\ ts[1].text \notin used
    \/ \E k \in 4..(Len(ts) - 1) :
          /\ ts[k].type = "Comma"
          /\ IsPair(Slice(ts, 1, k - 1))
          /\ ts[1].text \notin used
          /\ IsPairs(Slice(ts, k + 1, Len(ts)), used \cup {ts[1].text})

RECURSIVE Unparse(_), UnparseItems(_, _)
\* the tokens of a value tree, in the order of the tree
Unparse(v) ==
    IF v.type = "Str" THEN <<Token("String", v.text)>>
    ELSE IF v.type = "Number" THEN <<Token("Number", v.text)>>
    ELSE IF v.type = "Boolean" THEN <<Token(v.text[1], <<>>)>>
    ELSE IF v.type = "Null" THEN <<Token("Null", <<>>)>>
    ELSE IF v.type = "Array"
    THEN <<Token("LBracket", <<>>)>> \o UnparseItems(v.items, FALSE)
            \o <<Token("RBracket", <<>>)>>
    ELSE <<Token("LBrace", <<>>)>> \o UnparseItems(v.items, TRUE)
            \o <<Token("RBrace", <<>>)>>

UnparseItems(items, pairs) ==
    IF items = <<>> THEN <<>>
    ELSE (IF pairs
          THEN <<Token("String", items[1].key), Token("Colon", <<>>)>>
                  \o Unparse(items[1].value)
          ELSE Unparse(items[1]))
         \o (IF Len(items) = 1 THEN <<>> ELSE <<Token("Comma", <<>>)>>)
         \o UnparseItems(Tail(items), pairs)

Keys(pairs) == {pairs[i].key : i \in 1..Len(pairs)}

RECURSIVE DistinctKeys(_)
\* no object of the value tree v has a key twice
DistinctKeys(v) ==
    /\ v.type = "Object" =>
          \A i, j \in 1..Len(v.items) :
              v.items[i].key = v.items[j].key => i = j
    /\ v.type = "Object" => \A i \in 1..Len(v.items) : DistinctKeys(v.items[i].value)
    /\ v.type = "Array" => \A i \in 1..Len(v.items) : DistinctKeys(v.items[i])

\* parse_object has the pair of parse_pair in hand, with the pairs it
\* accepted before in Top.pairs
AtInsert == Running /\ Top.fn = "parse_object" /\ Top.pc = "insert"

DuplicateKeyError(key) == Outcome("err", "duplicate key", key, NoValue)

TrailingContentFails(all) ==
    \A k \in 1..(Len(all) - 1) :
        IsValue(Slice(all, 1, k)) =>
            /\ outcome = Outcome("err", "unexpected content following root value",
                                 <<>>, NoValue)
            /\ tokens = Slice(all, 1, k + 1)

\* C5: parse returns a document only if the tokenizer reports the end of the
\* input after exactly one value; when a token follows the root value parse
\* fails with "unexpected content following root value" and no value tree.
C5_TrailingContent ==
    /\ outcome.kind = "ok" =>
          /\ lexres.kind = "none"
          /\ position = Len(tokens)
          /\ LexAll = [tokens |-> tokens, end |-> "none"]
          /\ IsValue(tokens)
    /\ Done => TrailingContentFails(LexAll.tokens)

\* an object as root value is followed by a second value
C5_Witness ==
    /\ outcome.msg = "unexpected content following root value"
    /\ Len(tokens) = 6
    /\ tokens[1].type = "LBrace"
    /\ position = 5

RECURSIVE Open(_, _)
\* the containers the tokens ts leave open after open, innermost last
Open(ts, open) ==
    IF ts = <<>> THEN open
    ELSE Open(Tail(ts),
              IF Head(ts).type \in {"LBrace", "LBracket"}
              THEN Append(open, Head(ts).type)
              ELSE IF Head(ts).type \in {"RBrace", "RBracket"}
              THEN SubSeq(open, 1, Len(open) - 1)
              ELSE open)

Innermost == Open(tokens, <<>>)[Len(Open(tokens, <<>>))]

\* the token stream ended while a container was open
EndedInside == Done /\ lexres.kind = "none" /\ Open(tokens, <<>>) # <<>>

UnclosedError ==
    IF Innermost = "LBracket" THEN "unclosed array delimiter" ELSE "unclosed object"

\* C6, as the specification states it: when the token stream ends in an
\* open array, parse fails with the unclosed array error, and in an open
\* object with the unclosed object error, wherever inside the container the
\* stream ends.
C6_UnclosedAnywhere ==
    EndedInside => outcome = Outcome("err", UnclosedError, <<>>, NoValue)

LastToken == tokens[Len(tokens)]

\* the last token is a key: a string just after '{' or ',' in an object
EndsWithKey ==
    /\ Innermost = "LBrace"
    /\ LastToken.type = "String"
    /\ tokens[Len(tokens) - 1].type \in {"LBrace", "Comma"}

\* the error of a token stream that ends in an open container
EndOfInputError ==
    IF LastToken.type = "Colon" THEN "expected value but input ended prematurely"
    ELSE IF LastToken.type = "Comma"
    THEN IF Innermost = "LBracket" THEN "expected value but input ended prematurely"
         ELSE "expected string, but input ended prematurely"
    ELSE IF EndsWithKey THEN "expected Colon, but input ended prematurely"
    ELSE UnclosedError

\* C6, amended: when the token stream ends in an open container, parse fails;
\* the error is the unclosed array or unclosed object error of the innermost
\* open container when the stream ends just after its opening delimiter or
\* after a complete element or pair, and a premature end of input error when
\* it ends after a comma, a key or a colon.
C6_UnclosedAtLoopHead ==
    EndedInside => outcome = Outcome("err", EndOfInputError, <<>>, NoValue)

\* the stream ends after a complete pair of an object inside an array
C6_Witness ==
    /\ EndedInside
    /\ Open(tokens, <<>>) = <<"LBracket", "LBrace">>
    /\ LastToken.type = "Number"
    /\ outcome.msg = "unclosed object"

\* C8: on a text the tokenizer lexes to its end, parse returns a document
\* exactly when the token sequence is a value of the grammar, and an error
\* otherwise; the value tree has the elements and pairs in source order: its
\* tokens are the tokens of the text.
C8_Grammar ==
    (Done /\ LexAll.end = "none") =>
        /\ outcome.kind = "ok" <=> IsValue(LexAll.tokens)
        /\ outcome.kind = "ok" => Unparse(outcome.value) = LexAll.tokens
        /\ outcome.kind # "ok" => outcome.kind = "err" /\ outcome.value = NoValue

\* an array of a number and an object is returned
C8_Witness ==
    /\ outcome.kind = "ok"
    /\ outcome.value.type = "Array"
    /\ Len(outcome.value.items) = 2
    /\ outcome.value.items[1].type = "Number"
    /\ outcome.value.items[2].type = "Object"

IsPrefix(s, t) == Len(s) <= Len(t) /\ SubSeq(t, 1, Len(s)) = s

\* C9: position is at most the length of the buffer; the buffer is append
\* only and holds the tokens the tokenizer returned, in order; the tokenizer
\* is asked for a token only when position is the length of the buffer; and
\* position goes up by one at a time and only over a token of the buffer.
C9_TokenBuffer ==
    /\ [](/\ position <= Len(tokens)
          /\ tokens = returned
          /\ \A i \in 1..Len(asked) : asked[i][1] = asked[i][2])
    /\ [][/\ IsPrefix(tokens, tokens')
          /\ Len(asked') = Len(asked) => tokens' = tokens
          /\ position' # position
                => position' = position + 1 /\ position < Len(tokens')]_vars

\* a document has been returned after the buffer served tokens again
C9_Witness ==
    /\ outcome.kind = "ok"
    /\ Len(tokens) >= 5
    /\ position = Len(tokens)
    /\ Len(asked) = Len(tokens) + 1

\* the measures of progress: the byte cursor never goes back and goes up
\* with every token, and an iteration of a container loop that got its
\* element or pair has moved position on
C10_Progress ==
    /\ start_offset <= byte_offset
    /\ lexres.kind = "token" => start_offset < byte_offset
    /\ (Running /\ Top.pc \in {"push", "insert"}) => Top.iter_pos < position
    /\ byte_offset <= ByteLen(input)

\* C10: every parse ends with a document or an error; the byte cursor goes up
\* with every token and never back, and every loop iteration of the parser
\* moves position on or returns.
C10_Terminates ==
    /\ C10_Progress
    /\ Done => outcome.kind \in {"ok", "err"}

====
